---- MODULE Spec2Model ----
(***************************************************************************)
(* Model of rl_coach/architectures/tensorflow_components/embedders/        *)
(* embedder.py: the InputEmbedder layer.  An embedder object is built by   *)
(* __init__, after which its input_size setter, its forward pass (call)    *)
(* and its summary (__str__) may be invoked any number of times.           *)
(*                                                                         *)
(* Numbers that the code handles as floats are modelled as exact rationals *)
(* [n, d] in lowest terms with d > 0; float32 rounding is not modelled.    *)
(***************************************************************************)
EXTENDS Integers, Sequences, FiniteSets, TLC

VARIABLES
    phase,             \* "new" (not yet constructed), "ready", "failed"
    args,              \* the arguments __init__ was called with
    cls,               \* the class being instantiated
    input_size,        \* self._input_size
    input_rescaling,   \* self.input_rescaling
    input_offset,      \* self.input_offset
    input_clipping,    \* self.input_clipping
    embbeder_layers,   \* self.embbeder_layers
    schemes_accessed,  \* whether the schemes property has been read
    op,                \* the operation that ran last
    value,             \* the value last handed to the input_size setter
    error,             \* the exception the last operation raised, or "none"
    pc,                \* position inside call: "idle", "layers", "flatten"
    i,                 \* index of the next layer of the loop of call
    inputs,            \* the tensor call was invoked with
    x,                 \* the local x of call
    result,            \* the tensor the last call returned
    summary            \* the lines the last __str__ returned

vars == <<phase, args, cls, input_size, input_rescaling, input_offset,
          input_clipping, embbeder_layers, schemes_accessed, op, value,
          error, pc, i, inputs, x, result, summary>>

self_fields == <<input_size, input_rescaling, input_offset, input_clipping,
                 embbeder_layers>>

-----------------------------------------------------------------------------
(* Bounds of the model.                                                    *)

\* longest explicit layer-descriptor list handed to __init__
MaxLayers == 2

-----------------------------------------------------------------------------
(* Rational arithmetic.                                                    *)

Abs(a) == IF a < 0 THEN -a ELSE a

RECURSIVE GCD(_, _)
GCD(a, b) == IF b = 0 THEN a ELSE GCD(b, a % b)

Rat(n, d) ==
    LET s == IF d < 0 THEN -1 ELSE 1
        g == GCD(Abs(n), Abs(d))
    IN  [n |-> (s * n) \div g, d |-> (s * d) \div g]

RLeq(a, b) == a.n * b.d <= b.n * a.d

\* tf.cast(inputs, tf.float32) applied to one integer entry
cast(v) == Rat(v, 1)

\* tf.math.divide, elementwise true division
divide(a, b) == Rat(a.n * b.d, a.d * b.n)

\* x - self.input_offset, elementwise
subtract(a, b) == Rat(a.n * b.d - b.n * a.d, a.d * b.d)

minimum(a, b) == IF RLeq(a, b) THEN a ELSE b

maximum(a, b) == IF RLeq(a, b) THEN b ELSE a

\* tf.clip_by_value: maximum(minimum(t, clip_value_max), clip_value_min)
clip_by_value(t, clip_value_min, clip_value_max) ==
    maximum(minimum(t, clip_value_max), clip_value_min)

-----------------------------------------------------------------------------
(* Values handed to the input_size setter.  A value carries its Python     *)
(* type, its integer (for an int) and its elements (for a sequence type).  *)

PyValue(type, int, elems) == [type |-> type, int |-> int, elems |-> elems]

Unset == PyValue("unset", 0, <<>>)

ShapeValues ==
    { PyValue("int", 5, <<>>),
      PyValue("list", 0, <<3, 4>>),
      PyValue("tuple", 0, <<3, 4>>),
      PyValue("ndarray", 0, <<3, 4>>),
      PyValue("str", 0, <<>>),
      PyValue("NoneType", 0, <<>>) }

\* the body of the setter when the final isinstance(value, list) test is
\* dropped: the value is stored whatever its type
input_size_setter_unchecked(v) ==
    LET coerced ==
            IF v.type = "ndarray" \/ v.type = "tuple"
            THEN PyValue("list", 0, v.elems)
            ELSE IF v.type = "int"
                 THEN PyValue("list", 0, <<v.int>>)
                 ELSE v
    IN  [error |-> "none", stored |-> coerced]

\* the body of the setter when an int is stored without being wrapped
input_size_setter_nowrap(v) ==
    LET coerced ==
            IF v.type = "ndarray" \/ v.type = "tuple"
            THEN PyValue("list", 0, v.elems)
            ELSE v
    IN  IF coerced.type # "list" /\ coerced.type # "int"
        THEN [error |-> "ValueError", stored |-> Unset]
        ELSE [error |-> "none", stored |-> coerced]

\* InputEmbedder.input_size.setter: the value to store, or the exception
input_size_setter(v) ==
    LET coerced ==
            IF v.type = "ndarray" \/ v.type = "tuple"
            THEN PyValue("list", 0, v.elems)
            ELSE IF v.type = "int"
                 THEN PyValue("list", 0, <<v.int>>)
                 ELSE v
    IN  IF coerced.type # "list"
        THEN [error |-> "ValueError", stored |-> Unset]
        ELSE [error |-> "none", stored |-> coerced]

-----------------------------------------------------------------------------
(* Constructor arguments.                                                  *)

NoRat == [n |-> 0, d |-> 0]

None == [given |-> FALSE, low |-> NoRat, high |-> NoRat]

Clipping(low, high) == [given |-> TRUE, low |-> low, high |-> high]

RescalingValues == {Rat(1, 1), Rat(2, 1)}

OffsetValues == {Rat(0, 1), Rat(1, 1)}

ClippingValues ==
    {None, Clipping(Rat(0, 1), Rat(1, 1)), Clipping(Rat(1, 1), Rat(0, 1))}

DropoutRates == {Rat(0, 1), Rat(1, 2)}

\* "None" stands for activation_function=None
ActivationFunctions == {"relu", "None"}

\* "Unknown" is a descriptor convert_layer does not recognise
Descriptors == {"Dense", "Conv2d", "Unknown"}

RECURSIVE SeqsUpTo(_, _)
SeqsUpTo(S, n) ==
    IF n = 0
    THEN {<<>>}
    ELSE LET shorter == SeqsUpTo(S, n - 1)
         IN  shorter \cup {Append(q, e) : q \in shorter, e \in S}

SchemeIds == {"Shallow", "Medium"}

PyScheme(type, id, layers) == [type |-> type, id |-> id, layers |-> layers]

SchemeValues ==
    {PyScheme("EmbedderScheme", id, <<>>) : id \in SchemeIds}
    \cup {PyScheme("list", "", l) : l \in SeqsUpTo(Descriptors, MaxLayers)}
    \cup {PyScheme("NoneType", "", <<>>)}

Classes == {"InputEmbedder", "Subclass"}

NoArgs ==
    [input_size |-> Unset, activation_function |-> "None",
     scheme |-> PyScheme("NoneType", "", <<>>), batchnorm |-> FALSE,
     dropout_rate |-> NoRat, input_rescaling |-> NoRat,
     input_offset |-> NoRat, input_clipping |-> None]

-----------------------------------------------------------------------------
(* Scheme resolution and the layer stack.                                  *)

\* the scheme registry of a specialization of InputEmbedder
SubclassSchemes ==
    [id \in SchemeIds |->
        IF id = "Shallow" THEN <<"Dense">> ELSE <<"Conv2d", "Dense">>]

\* the schemes property as seen by an instance of class c
schemes(c) ==
    IF c = "InputEmbedder"
    THEN [error |-> "NotImplementedError", map |-> SubclassSchemes]
    ELSE [error |-> "none", map |-> SubclassSchemes]

\* scheme resolution that reads the registry before testing the scheme's type
resolve_scheme_eager(c, scheme) ==
    LET reg == schemes(c)
    IN  IF reg.error # "none"
        THEN [error |-> reg.error, accessed |-> TRUE,
              iterable |-> FALSE, layers |-> <<>>]
        ELSE IF scheme.type = "EmbedderScheme"
             THEN [error |-> "none", accessed |-> TRUE,
                   iterable |-> TRUE, layers |-> reg.map[scheme.id]]
             ELSE [error |-> "none", accessed |-> TRUE,
                   iterable |-> scheme.type = "list", layers |-> scheme.layers]

\* __init__: the layers the scheme argument stands for
resolve_scheme(c, scheme) ==
    IF scheme.type = "EmbedderScheme"
    THEN LET reg == schemes(c)
         IN  IF reg.error # "none"
             THEN [error |-> reg.error, accessed |-> TRUE,
                   iterable |-> FALSE, layers |-> <<>>]
             ELSE [error |-> "none", accessed |-> TRUE,
                   iterable |-> TRUE, layers |-> reg.map[scheme.id]]
    ELSE [error |-> "none", accessed |-> FALSE,
          iterable |-> scheme.type = "list", layers |-> scheme.layers]

Entry(kind, desc, id) == [kind |-> kind, desc |-> desc, id |-> id]

\* convert_layer applied to the k-th descriptor: a fresh layer object
convert_layer(l, k) == Entry("layer", l, k)

\* [convert_layer(l) for l in layers]: the exception it raises, or "none"
convert_error(r) ==
    IF ~r.iterable
    THEN "TypeError"
    ELSE IF \E k \in 1..Len(r.layers) : r.layers[k] = "Unknown"
         THEN "ConversionFailure"
         ELSE "none"

\* Python truth value of the dropout_rate argument
Truthy(rate) == rate.n # 0

\* the loop body with the activation appended before the batch normalization
extend_layer_swapped(stack, layer, batchnorm, activation_function, dropout_rate) ==
    LET s1 == Append(stack, layer)
        s2 == IF activation_function # "None"
              THEN Append(s1, Entry("activation", activation_function, 0))
              ELSE s1
        s3 == IF batchnorm
              THEN Append(s2, Entry("BatchNormalization", "", layer.id))
              ELSE s2
    IN  IF Truthy(dropout_rate)
        THEN Append(s3, Entry("Dropout", "", layer.id))
        ELSE s3

\* one iteration of the loop of __init__ over the converted layers
extend_layer(stack, layer, batchnorm, activation_function, dropout_rate) ==
    LET s1 == Append(stack, layer)
        s2 == IF batchnorm
              THEN Append(s1, Entry("BatchNormalization", "", layer.id))
              ELSE s1
        s3 == IF activation_function # "None"
              THEN Append(s2, Entry("activation", activation_function, 0))
              ELSE s2
    IN  IF Truthy(dropout_rate)
        THEN Append(s3, Entry("Dropout", "", layer.id))
        ELSE s3

\* the loop of __init__: the stack after the layers from index k on
RECURSIVE build_layers(_, _, _, _)
build_layers(stack, layers, k, a) ==
    IF k > Len(layers)
    THEN stack
    ELSE build_layers(
             extend_layer(stack, convert_layer(layers[k], k), a.batchnorm,
                          a.activation_function, a.dropout_rate),
             layers, k + 1, a)

-----------------------------------------------------------------------------
(* Tensors.  A tensor is its shape, the preprocessed input entries it was  *)
(* computed from (row-major), and the layer objects applied to them, in    *)
(* the order of application.                                               *)

Tensor(shape, data, applied) ==
    [shape |-> shape, data |-> data, applied |-> applied]

NoTensor == Tensor(<<>>, <<>>, <<>>)

\* batches call is invoked with: integer entries, batch size first
InputTensors ==
    {Tensor(shape, data, <<>>) :
        shape \in {<<2>>, <<1, 2>>, <<1, 1, 2, 1>>},
        data \in {<<-2, 1>>, <<6, 3>>}}

RECURSIVE Prod(_)
Prod(shape) == IF shape = <<>> THEN 1 ELSE Head(shape) * Prod(Tail(shape))

\* the preprocessing of call with the offset subtracted before the division
preprocess_offset_first(v, rescaling, offset, clipping) ==
    LET y == divide(subtract(cast(v), offset), rescaling)
    IN  IF clipping.given
        THEN clip_by_value(y, clipping.low, clipping.high)
        ELSE y

\* call, lines 77-81, on one entry v of inputs
preprocess(v, rescaling, offset, clipping) ==
    LET y == subtract(divide(cast(v), rescaling), offset)
    IN  IF clipping.given
        THEN clip_by_value(y, clipping.low, clipping.high)
        ELSE y

\* layer(x) for one entry of the stack: the output tensor, or the failure of
\* a layer handed a tensor of a rank it does not accept.  A dense layer maps
\* the last axis to its 3 units and needs rank >= 2; a convolution maps the
\* channel axis to its 2 filters (kernel 1, stride 1) and needs rank 4; batch
\* normalization, activation and dropout keep the shape.
apply_layer(layer, t) ==
    LET rank == Len(t.shape)
        out(shape) == Tensor(shape, t.data, Append(t.applied, layer))
    IN  IF layer.kind = "layer" /\ layer.desc = "Dense"
        THEN IF rank >= 2
             THEN [error |-> "none", out |-> out([t.shape EXCEPT ![rank] = 3])]
             ELSE [error |-> "LayerError", out |-> NoTensor]
        ELSE IF layer.kind = "layer" /\ layer.desc = "Conv2d"
             THEN IF rank = 4
                  THEN [error |-> "none",
                        out |-> out([t.shape EXCEPT ![rank] = 2])]
                  ELSE [error |-> "LayerError", out |-> NoTensor]
             ELSE [error |-> "none", out |-> out(t.shape)]

\* the end of call with the Flatten step left out
Flatten_omitted(t) == t

\* keras.layers.Flatten()(x): a rank-1 batch gains an axis of size 1, any
\* other batch is reshaped to (batch, -1)
Flatten(t) ==
    IF Len(t.shape) = 1
    THEN Tensor(<<t.shape[1], 1>>, t.data, t.applied)
    ELSE Tensor(<<t.shape[1], Prod(t.shape) \div t.shape[1]>>,
                t.data, t.applied)

\* the loop of call walking the stack from its last entry to its first
layer_at_reversed(stack, k) == stack[Len(stack) + 1 - k]

\* the k-th layer the loop of call visits
layer_at(stack, k) == stack[k]

-----------------------------------------------------------------------------
(* The summary.  A line is its kind and the values formatted into it.      *)

Line(tag, size, scale, offset, layer) ==
    [tag |-> tag, size |-> size, scale |-> scale, offset |-> offset,
     layer |-> layer]

NoEntry == Entry("", "", 0)

InputSizeLine(size) == Line("Input size", size, NoRat, NoRat, NoEntry)

NormalizationLine(scale, offset) ==
    Line("Input Normalization", Unset, scale, offset, NoEntry)

LayerLine(layer) == Line("layer", Unset, NoRat, NoRat, layer)

NoLayersLine == Line("No layers", Unset, NoRat, NoRat, NoEntry)

One == Rat(1, 1)

Zero == Rat(0, 1)

\* __str__ writing the normalization line only when both values are set
str_lines_both(size, rescaling, offset, layers) ==
    LET r1 == <<InputSizeLine(size)>>
        r2 == IF rescaling # One /\ offset # Zero
              THEN Append(r1, NormalizationLine(rescaling, offset))
              ELSE r1
        r3 == r2 \o [k \in 1..Len(layers) |-> LayerLine(layers[k])]
    IN  IF layers = <<>> THEN Append(r3, NoLayersLine) ELSE r3

\* __str__ appending the "No layers" line whatever the stack holds
str_lines_always(size, rescaling, offset, layers) ==
    LET r1 == <<InputSizeLine(size)>>
        r2 == IF rescaling # One \/ offset # Zero
              THEN Append(r1, NormalizationLine(rescaling, offset))
              ELSE r1
        r3 == r2 \o [k \in 1..Len(layers) |-> LayerLine(layers[k])]
    IN  Append(r3, NoLayersLine)

\* __str__: the lines joined into the summary
str_lines(size, rescaling, offset, layers) ==
    LET r1 == <<InputSizeLine(size)>>
        r2 == IF rescaling # One \/ offset # Zero
              THEN Append(r1, NormalizationLine(rescaling, offset))
              ELSE r1
        r3 == r2 \o [k \in 1..Len(layers) |-> LayerLine(layers[k])]
    IN  IF layers = <<>> THEN Append(r3, NoLayersLine) ELSE r3

-----------------------------------------------------------------------------
(* The state machine.                                                      *)

Init ==
    /\ phase = "new"
    /\ args = NoArgs
    /\ cls = "InputEmbedder"
    /\ input_size = Unset
    /\ input_rescaling = NoRat
    /\ input_offset = NoRat
    /\ input_clipping = None
    /\ embbeder_layers = <<>>
    /\ schemes_accessed = FALSE
    /\ op = "none"
    /\ value = Unset
    /\ error = "none"
    /\ pc = "idle"
    /\ i = 0
    /\ inputs = NoTensor
    /\ x = NoTensor
    /\ result = NoTensor
    /\ summary = <<>>

\* InputEmbedder.__init__ called on class c with arguments a
Construct(c, a) ==
    LET set == input_size_setter(a.input_size)
        res == resolve_scheme(c, a.scheme)
        conv == convert_error(res)
    IN  /\ phase = "new"
        /\ args' = a
        /\ cls' = c
        /\ op' = "__init__"
        /\ value' = a.input_size
        /\ UNCHANGED <<pc, i, inputs, x, result, summary>>
        /\ IF set.error # "none"
           THEN /\ phase' = "failed"
                /\ error' = set.error
                /\ UNCHANGED <<input_size, input_rescaling, input_offset,
                               input_clipping, embbeder_layers,
                               schemes_accessed>>
           ELSE /\ input_size' = set.stored
                /\ input_rescaling' = a.input_rescaling
                /\ input_offset' = a.input_offset
                /\ input_clipping' = a.input_clipping
                /\ schemes_accessed' = res.accessed
                /\ IF res.error # "none"
                   THEN /\ phase' = "failed"
                        /\ error' = res.error
                        /\ embbeder_layers' = <<>>
                   ELSE IF conv # "none"
                        THEN /\ phase' = "failed"
                             /\ error' = conv
                             /\ embbeder_layers' = <<>>
                        ELSE /\ phase' = "ready"
                             /\ error' = "none"
                             /\ embbeder_layers' =
                                    build_layers(<<>>, res.layers, 1, a)

ConstructAny ==
    /\ phase = "new"
    /\ \E c \in Classes, size \in ShapeValues, act \in ActivationFunctions,
          scheme \in SchemeValues, bn \in BOOLEAN, rate \in DropoutRates,
          resc \in RescalingValues, off \in OffsetValues,
          clip \in ClippingValues :
        Construct(c, [input_size |-> size, activation_function |-> act,
                      scheme |-> scheme, batchnorm |-> bn,
                      dropout_rate |-> rate, input_rescaling |-> resc,
                      input_offset |-> off, input_clipping |-> clip])

\* assignment to the input_size property of a constructed embedder
SetInputSize(v) ==
    LET set == input_size_setter(v)
    IN  /\ phase = "ready"
        /\ pc = "idle"
        /\ op' = "input_size"
        /\ value' = v
        /\ error' = set.error
        /\ input_size' = IF set.error = "none" THEN set.stored ELSE input_size
        /\ inputs' = NoTensor
        /\ result' = NoTensor
        /\ summary' = <<>>
        /\ UNCHANGED <<phase, args, cls, input_rescaling, input_offset,
                       input_clipping, embbeder_layers, schemes_accessed,
                       pc, i, x>>

\* call, lines 77-81: the cast and the preprocessing of inputs t
CallBegin(t) ==
    /\ phase = "ready"
    /\ pc = "idle"
    /\ op' = "call"
    /\ error' = "none"
    /\ inputs' = t
    /\ x' = Tensor(t.shape,
                   [k \in 1..Len(t.data) |->
                       preprocess(t.data[k], input_rescaling, input_offset,
                                  input_clipping)],
                   <<>>)
    /\ pc' = "layers"
    /\ i' = 1
    /\ value' = Unset
    /\ result' = NoTensor
    /\ summary' = <<>>
    /\ UNCHANGED <<phase, args, cls, self_fields, schemes_accessed>>

\* call, lines 83-84: one iteration of the loop over the stack
CallLayer ==
    /\ pc = "layers"
    /\ i <= Len(embbeder_layers)
    /\ LET r == apply_layer(layer_at(embbeder_layers, i), x)
       IN  IF r.error # "none"
           THEN /\ error' = r.error
                /\ pc' = "idle"
                /\ i' = 0
                /\ x' = NoTensor
           ELSE /\ x' = r.out
                /\ i' = i + 1
                /\ UNCHANGED <<error, pc>>
    /\ UNCHANGED <<phase, args, cls, self_fields, schemes_accessed, op,
                   value, inputs, result, summary>>

\* call with the Flatten layer appended to the stack of the embedder
CallFlatten_appending ==
    /\ pc = "layers"
    /\ i > Len(embbeder_layers)
    /\ result' = Flatten(x)
    /\ embbeder_layers' = Append(embbeder_layers, Entry("Flatten", "", 0))
    /\ pc' = "idle"
    /\ i' = 0
    /\ x' = NoTensor
    /\ UNCHANGED <<phase, args, cls, input_size, input_rescaling,
                   input_offset, input_clipping, schemes_accessed, op,
                   value, error, inputs, summary>>

\* call, lines 87-88: the loop is over, x is flattened and returned
CallFlatten ==
    /\ pc = "layers"
    /\ i > Len(embbeder_layers)
    /\ result' = Flatten(x)
    /\ pc' = "idle"
    /\ i' = 0
    /\ x' = NoTensor
    /\ UNCHANGED <<phase, args, cls, self_fields, schemes_accessed, op,
                   value, error, inputs, summary>>

\* __str__ of a constructed embedder
Str ==
    /\ phase = "ready"
    /\ pc = "idle"
    /\ op' = "__str__"
    /\ error' = "none"
    /\ summary' = str_lines(input_size, input_rescaling, input_offset,
                            embbeder_layers)
    /\ value' = Unset
    /\ inputs' = NoTensor
    /\ result' = NoTensor
    /\ UNCHANGED <<phase, args, cls, self_fields, schemes_accessed, pc, i, x>>

Next ==
    \/ ConstructAny
    \/ \E v \in ShapeValues : SetInputSize(v)
    \/ \E t \in InputTensors : CallBegin(t)
    \/ CallLayer
    \/ CallFlatten
    \/ Str

Spec == Init /\ [][Next]_vars

-----------------------------------------------------------------------------
(* Properties.                                                             *)

Bit(b) == IF b THEN 1 ELSE 0

\* the descriptor list __init__ resolved the scheme argument to
ResolvedDescriptors ==
    IF args.scheme.type = "EmbedderScheme"
    THEN SubclassSchemes[args.scheme.id]
    ELSE args.scheme.layers

IsConverted(e) == e.kind = "layer"

\* the descriptors of the converted layers of a stack, in stack order
LayerDescs(stack) ==
    LET conv == SelectSeq(stack, IsConverted)
    IN  [k \in 1..Len(conv) |-> conv[k].desc]

Convertible == {"int", "list", "tuple", "ndarray"}

Assigned == op = "__init__" \/ op = "input_size"

HasLine(tag) == \E k \in 1..Len(summary) : summary[k].tag = tag

\* C1: after a successful construction the stack holds, for each descriptor
\* in input order, its converted layer, then a batch normalization iff
\* batchnorm, then the activation iff one is given, then a dropout iff the
\* dropout rate is nonzero, and nothing else.
C1_StackInterleaving ==
    phase = "ready" =>
        LET descs == ResolvedDescriptors
            bn == Bit(args.batchnorm)
            act == Bit(args.activation_function # "None")
            drop == Bit(args.dropout_rate # Rat(0, 1))
            per == 1 + bn + act + drop
        IN  /\ Len(embbeder_layers) = Len(descs) * per
            /\ \A k \in 1..Len(descs) :
                 LET base == (k - 1) * per
                 IN  /\ embbeder_layers[base + 1] = Entry("layer", descs[k], k)
                     /\ bn = 1 =>
                          embbeder_layers[base + 2].kind = "BatchNormalization"
                     /\ act = 1 =>
                          embbeder_layers[base + 2 + bn] =
                              Entry("activation", args.activation_function, 0)
                     /\ drop = 1 =>
                          embbeder_layers[base + 2 + bn + act].kind = "Dropout"

C1_Witness ==
    /\ phase = "ready"
    /\ args.batchnorm
    /\ args.activation_function = "relu"
    /\ args.dropout_rate = Rat(1, 2)
    /\ args.scheme.layers = <<"Conv2d", "Dense">>
    /\ Len(embbeder_layers) = 8
    /\ embbeder_layers[6].kind = "BatchNormalization"

\* C2 as stated: assigning a value that is not an int, list, tuple or array
\* as the input shape fails with a TypeError.
C2_RaisesTypeError ==
    (Assigned /\ value.type \notin Convertible) => error = "TypeError"

\* C2 as amended: assigning a value that is not an int, list, tuple or array
\* as the input shape fails with a ValueError; in the constructor it is
\* raised by the assignment itself, before the scheme is looked at, and no
\* shape is stored.
C2_RaisesValueError ==
    (Assigned /\ value.type \notin Convertible) =>
        /\ error = "ValueError"
        /\ op = "__init__" =>
             /\ phase = "failed"
             /\ input_size = Unset
             /\ ~schemes_accessed

C2_Witness ==
    /\ op = "input_size"
    /\ value.type = "str"
    /\ error = "ValueError"
    /\ input_size.type = "list"

\* C3: after an int, list, tuple or array is assigned as the input shape the
\* stored shape is a list of integers: [v] for an int v, the elements in the
\* same order for a tuple or an array, the list itself for a list.
C3_StoredShapeIsList ==
    (Assigned /\ value.type \in Convertible) =>
        /\ input_size.type = "list"
        /\ \A k \in 1..Len(input_size.elems) : input_size.elems[k] \in Int
        /\ value.type = "int" => input_size.elems = <<value.int>>
        /\ value.type # "int" => input_size.elems = value.elems
        /\ op = "input_size" => error = "none"

C3_Witness ==
    /\ op = "input_size"
    /\ value.type = "int"
    /\ args.input_size.type = "tuple"
    /\ input_size.elems = <<5>>

\* C4: inside call every entry v of inputs has become (v / rescaling) -
\* offset, clamped into [low, high] iff clipping bounds with low <= high are
\* configured; rescaling 2, offset 1, clipping [0, 1] maps 6 to 1.
C4_Preprocessing ==
    pc = "layers" =>
        \A k \in 1..Len(inputs.data) :
            LET v == inputs.data[k]
                y == x.data[k]
                r == input_rescaling
                o == input_offset
                c == input_clipping
                sgn == IF r.n < 0 THEN -1 ELSE 1
                qn == sgn * (v * r.d * o.d - o.n * r.n)
                qd == sgn * (r.n * o.d)
                IsQ == y.n * qd = qn * y.d
                BelowLow == qn * c.low.d < c.low.n * qd
                AboveHigh == qn * c.high.d > c.high.n * qd
            IN  /\ Len(x.data) = Len(inputs.data)
                /\ y.d > 0
                /\ ~c.given => IsQ
                /\ (c.given /\ RLeq(c.low, c.high)) =>
                     IF BelowLow THEN y = c.low
                     ELSE IF AboveHigh THEN y = c.high
                     ELSE IsQ
                /\ (r = Rat(2, 1) /\ o = Rat(1, 1) /\ v = 6
                    /\ c = Clipping(Rat(0, 1), Rat(1, 1))) => y = Rat(1, 1)

C4_Witness ==
    /\ pc = "layers"
    /\ input_rescaling = Rat(2, 1)
    /\ input_offset = Rat(1, 1)
    /\ input_clipping = Clipping(Rat(0, 1), Rat(1, 1))
    /\ inputs.data = <<6, 3>>
    /\ x.data = <<Rat(1, 1), Rat(1, 2)>>

\* C5: no step of a forward pass changes the layer stack, the input shape,
\* the rescaling factor, the offset or the clipping bounds, and after
\* construction the stored input shape changes only in the shape setter.
C5_CallKeepsState ==
    [][/\ (pc # "idle" \/ pc' # "idle") => UNCHANGED self_fields
       /\ (phase = "ready" /\ input_size' # input_size) => op' = "input_size"
      ]_vars

C5_Witness ==
    /\ op = "call"
    /\ pc = "idle"
    /\ error = "none"
    /\ Len(result.shape) = 2
    /\ embbeder_layers # <<>>
    /\ input_clipping.given

\* C6: an enum scheme is resolved through the scheme registry, whose access
\* fails with NotImplementedError on InputEmbedder itself and yields the
\* registered descriptor list on a specialization; any other scheme argument
\* is used directly as the descriptor list and the registry is never read.
C6_SchemeResolution ==
    phase # "new" =>
        /\ args.scheme.type # "EmbedderScheme" =>
             /\ ~schemes_accessed
             /\ phase = "ready" =>
                  LayerDescs(embbeder_layers) = args.scheme.layers
        /\ (args.scheme.type = "EmbedderScheme"
            /\ args.input_size.type \in Convertible) =>
             /\ schemes_accessed
             /\ cls = "InputEmbedder" =>
                  /\ phase = "failed"
                  /\ error = "NotImplementedError"
                  /\ embbeder_layers = <<>>
             /\ cls # "InputEmbedder" =>
                  /\ phase = "ready"
                  /\ LayerDescs(embbeder_layers) =
                         SubclassSchemes[args.scheme.id]

C6_Witness ==
    /\ phase = "failed"
    /\ cls = "InputEmbedder"
    /\ args.scheme.type = "EmbedderScheme"
    /\ schemes_accessed
    /\ error = "NotImplementedError"

\* C7: a forward pass that returns, returns a tensor of rank 2 whose first
\* dimension is the batch dimension and whose second is the product of the
\* non-batch dimensions of the output of the last layer.
C7_OutputRankTwo ==
    [][(pc = "layers" /\ pc' = "idle" /\ error' = "none") =>
          /\ Len(result'.shape) = 2
          /\ result'.shape[1] = inputs.shape[1]
          /\ result'.shape[1] = x.shape[1]
          /\ result'.shape[2] = Prod(Tail(x.shape))
      ]_vars

C7_Witness ==
    /\ op = "call"
    /\ pc = "idle"
    /\ error = "none"
    /\ inputs.shape = <<1, 1, 2, 1>>
    /\ LayerDescs(embbeder_layers) = <<"Conv2d">>
    /\ result.shape = <<1, 4>>

\* C8 as stated: whenever the rescaling factor, the offset or the clipping
\* range is not the default, the summary has a normalization entry.
C8_NormalizationReported ==
    (op = "__str__"
     /\ (input_rescaling # One \/ input_offset # Zero \/ input_clipping.given))
        => HasLine("Input Normalization")

\* C8 as amended: the summary starts with the input size; it has a
\* normalization entry exactly when the rescaling factor is not 1 or the
\* offset is not 0, as its second line, reporting the scale and the offset;
\* the clipping range is not consulted.
C8_ScaleOffsetReported ==
    op = "__str__" =>
        /\ summary[1] = InputSizeLine(input_size)
        /\ HasLine("Input Normalization") <=>
               (input_rescaling # One \/ input_offset # Zero)
        /\ \A k \in 1..Len(summary) :
               summary[k].tag = "Input Normalization" =>
                   /\ k = 2
                   /\ summary[k].scale = input_rescaling
                   /\ summary[k].offset = input_offset

C8_Witness ==
    /\ op = "__str__"
    /\ input_rescaling = Rat(2, 1)
    /\ input_offset = Zero
    /\ input_clipping = None
    /\ summary[2] = NormalizationLine(Rat(2, 1), Zero)

\* C9: the summary has the "No layers" line iff the stack is empty; for a
\* non-empty stack it has one description per entry, in stack order, after
\* the input-size line.
C9_NoLayersIffEmpty ==
    op = "__str__" =>
        LET n == Len(embbeder_layers)
            m == Len(summary)
        IN  /\ HasLine("No layers") <=> embbeder_layers = <<>>
            /\ summary[1].tag = "Input size"
            /\ Cardinality({k \in 1..m : summary[k].tag = "layer"}) = n
            /\ m >= n + 1
            /\ n > 0 =>
                 \A k \in 1..n :
                     /\ summary[m - n + k].tag = "layer"
                     /\ summary[m - n + k].layer = embbeder_layers[k]

C9_Witness ==
    /\ op = "__str__"
    /\ embbeder_layers = <<>>
    /\ summary[Len(summary)] = NoLayersLine

\* C10: the loop of call has applied the first i - 1 entries of the stack,
\* in stack order, to the preprocessed input, and a forward pass that
\* returns, returns the flattened output of the whole stack applied so.
C10_LayersInOrder ==
    LET pre == [k \in 1..Len(inputs.data) |->
                   preprocess(inputs.data[k], input_rescaling, input_offset,
                              input_clipping)]
    IN  /\ pc = "layers" =>
             /\ i \in 1..(Len(embbeder_layers) + 1)
             /\ x.applied = SubSeq(embbeder_layers, 1, i - 1)
             /\ x.data = pre
        /\ (op = "call" /\ pc = "idle" /\ error = "none") =>
             /\ result.applied = embbeder_layers
             /\ result.data = pre
             /\ embbeder_layers = <<>> =>
                  result = Flatten(Tensor(inputs.shape, pre, <<>>))

C10_Witness ==
    /\ op = "call"
    /\ pc = "idle"
    /\ error = "none"
    /\ Len(embbeder_layers) = 8
    /\ result.applied = embbeder_layers

====
